---- MODULE Spec2Model ----
(***************************************************************************)
(* GPS tracker of the SmartTourist front end (gps-tracker.js), together    *)
(* with the browser capabilities it consumes (geolocation, permissions,    *)
(* timers) and the two places of the application that start it (the        *)
(* DOMContentLoaded handler and the post-login timer).                     *)
(*                                                                         *)
(* One action is one task of the JavaScript event loop: a handler runs to  *)
(* completion, microtasks included, before the next one starts.            *)
(***************************************************************************)
EXTENDS Integers, FiniteSets, Sequences, TLC

(***************************************************************************)
(* Bounds of the model.                                                    *)
(***************************************************************************)
\* watch handles one behaviour uses: those the platform has handed out plus
\* the startTracking calls still on their way to one
MaxStarts == 2
\* one-shot poll requests in flight at once
MaxPolls == 1

(***************************************************************************)
(* Values.                                                                 *)
(***************************************************************************)
\* JavaScript null (watchId, lastPosition, intervalId after a stop)
Null == 0
\* JavaScript undefined (intervalId is not assigned by the constructor)
Undefined == 0 - 1

\* GeolocationPosition objects the platform can deliver.  Coordinates are in
\* degrees; the points are chosen where every trigonometric value the
\* haversine formula takes is rational.
Position ==
  <<[latitude |-> 0,  longitude |-> 0,    accuracy |-> 5,  timestamp |-> 1,
     altitude |-> Null, altitudeAccuracy |-> Null, heading |-> Null,
     speed |-> Null],
    [latitude |-> 0,  longitude |-> 0,    accuracy |-> 50, timestamp |-> 2,
     altitude |-> Null, altitudeAccuracy |-> Null, heading |-> Null,
     speed |-> Null],
    [latitude |-> 0,  longitude |-> 60,   accuracy |-> 5,  timestamp |-> 3,
     altitude |-> 12, altitudeAccuracy |-> 3, heading |-> 90, speed |-> 1],
    [latitude |-> 60, longitude |-> 180,  accuracy |-> 5,  timestamp |-> 4,
     altitude |-> Null, altitudeAccuracy |-> Null, heading |-> Null,
     speed |-> Null],
    [latitude |-> 60, longitude |-> -180, accuracy |-> 5,  timestamp |-> 5,
     altitude |-> Null, altitudeAccuracy |-> Null, heading |-> Null,
     speed |-> Null],
    [latitude |-> 60, longitude |-> 120,  accuracy |-> 5,  timestamp |-> 6,
     altitude |-> Null, altitudeAccuracy |-> Null, heading |-> Null,
     speed |-> Null]>>

AllSamples == 1..Len(Position)

\* the positions the platform delivers to a running tracker: two fixes of
\* one place and a fix of another
Samples == {1, 2, 3}

\* GeolocationPositionError codes; "OTHER" is a code handleError does not know
ErrorCodes == {"PERMISSION_DENIED", "POSITION_UNAVAILABLE", "TIMEOUT", "OTHER"}

PermissionStates == {"prompt", "granted", "denied"}

VARIABLES
  \* GPSTracker fields
  watchId, intervalId, lastPosition, isTracking, userConsent, initialized,
  permissionState,
  \* GPSTracker options
  minDistance, autoStart,
  \* platform: capabilities, live watches and intervals, handle counters,
  \* the PermissionStatus objects with an onchange hook, requests in flight
  hasGeolocation, hasPermissions, watches, intervals, nextWatchId,
  nextIntervalId, permHooks, initWaits, startReqs, pollReqs,
  \* application: whether DOMContentLoaded has fired
  pageLoaded,
  \* backend: the bodies of the save-location requests in flight, and the
  \* position that savePositionToBackend was called with last
  reports, lastReported,
  \* the api.js request() call under way: where it is and what it did
  req,
  \* what localStorage held when the last task ran, for the tasks that
  \* start tracking on their own
  storage,
  \* what the last task did: its name, its input, what it handed out
  out

tracker == <<watchId, intervalId, lastPosition, isTracking, userConsent,
             initialized, permissionState>>
options == <<minDistance, autoStart>>
platform == <<hasGeolocation, hasPermissions, watches, intervals, nextWatchId,
              nextIntervalId, permHooks, initWaits, startReqs, pollReqs>>
app == <<pageLoaded>>
backend == <<reports, lastReported, req>>
vars == <<tracker, options, platform, app, backend, storage, out>>

(***************************************************************************)
(* calculateDistance: the haversine formula.  Angles are degrees, multiples *)
(* of 60, so that sin^2 and cos are exact: sin^2 in quarters, cos in       *)
(* halves, a in sixteenths.  c is in milliradians and R in kilometres, so  *)
(* R * c is metres.                                                        *)
(***************************************************************************)
\* Earth's radius, kilometres
R == 6371

\* Math.sin(delta/2) * Math.sin(delta/2), in quarters
SinSqHalf(delta) ==
  CASE delta % 360 = 0   -> 0
    [] delta % 360 = 60  -> 1
    [] delta % 360 = 120 -> 3
    [] delta % 360 = 180 -> 4
    [] delta % 360 = 240 -> 3
    [] delta % 360 = 300 -> 1

\* Math.cos(lat), in halves
CosLat(lat) ==
  CASE lat = 0 -> 2
    [] lat = 60 -> 1
    [] lat = 0 - 60 -> 1

\* 2 * Math.atan2(Math.sqrt(a), Math.sqrt(1-a)) in milliradians, a in sixteenths
CentralAngle(a) ==
  <<0, 505, 723, 896, 1047, 1186, 1318, 1445, 1571, 1696, 1823, 1955, 2094,
    2246, 2419, 2636, 3142>>[a + 1]

\* calculateDistance whose latitude difference is lat2 alone
CalculateDistance_OneLatitude(lat1, lon1, lat2, lon2) ==
  LET a == 4 * SinSqHalf(lat2)
             + CosLat(lat1) * CosLat(lat2) * SinSqHalf(lon2 - lon1)
      c == CentralAngle(a)
  IN  R * c

CalculateDistance(lat1, lon1, lat2, lon2) ==
  LET a == 4 * SinSqHalf(lat2 - lat1)
             + CosLat(lat1) * CosLat(lat2) * SinSqHalf(lon2 - lon1)
      c == CentralAngle(a)
  IN  R * c

\* options.minDistance of the global instance, metres
DefaultMinDistance == 10

\* thresholds the filter is tried with: none, the default, and the distance
\* between Position[1] and Position[3], which puts a sample exactly on it
MinDistances == {0, DefaultMinDistance, CalculateDistance(0, 0, 0, 60)}

\* shouldSavePosition with `>` for `>=`
ShouldSavePosition_Strict(newPosition) ==
  IF lastPosition = Null
  THEN TRUE
  ELSE LET oldCoords == Position[lastPosition]
           newCoords == Position[newPosition]
           distance == CalculateDistance(oldCoords.latitude, oldCoords.longitude,
                                         newCoords.latitude, newCoords.longitude)
       IN  distance > minDistance

\* shouldSavePosition(newPosition), reading this.lastPosition and
\* this.options.minDistance
ShouldSavePosition(newPosition) ==
  IF lastPosition = Null
  THEN TRUE
  ELSE LET oldCoords == Position[lastPosition]
           newCoords == Position[newPosition]
           distance == CalculateDistance(oldCoords.latitude, oldCoords.longitude,
                                         newCoords.latitude, newCoords.longitude)
       IN  distance >= minDistance

(***************************************************************************)
(* What a task hands out.  reported counts savePositionToBackend calls,    *)
(* updates the gps-position-update events, warnings the showWarning calls, *)
(* cleared the clearWatch and clearInterval calls; ret is what a           *)
(* startTracking call settles with ("none" while it is pending or when the *)
(* task is no startTracking call); replaced is the lastPosition that the   *)
(* first fix of a startTracking call has overwritten.  requests counts the *)
(* HTTP requests the savePositionToBackend calls issued and saved is what  *)
(* their promise settles with ("none" without a call, "pending" while the  *)
(* request is in flight).                                                  *)
(***************************************************************************)
Out(op, sample, code, reported, updates, warnings, ret, cleared) ==
  [op |-> op, sample |-> sample, code |-> code, reported |-> reported,
   updates |-> updates, warnings |-> warnings, ret |-> ret,
   cleared |-> cleared, replaced |-> Null, requests |-> 0, saved |-> "none"]

(***************************************************************************)
(* The reporter.                                                           *)
(***************************************************************************)
\* the members of the api object that api.js attaches to window
ApiMethods ==
  {"get", "post", "patch", "put", "delete", "setToken", "clearToken",
   "getToken"}

\* the locationData object savePositionToBackend builds from a position
LocationData(position) ==
  [latitude |-> Position[position].latitude,
   longitude |-> Position[position].longitude,
   accuracy |-> Position[position].accuracy,
   altitude |-> Position[position].altitude,
   altitudeAccuracy |-> Position[position].altitudeAccuracy,
   heading |-> Position[position].heading,
   speed |-> Position[position].speed,
   timestamp |-> Position[position].timestamp]

\* savePositionToBackend without its try/catch: the TypeError rejects the
\* promise it returns
SavePositionToBackend_NoCatch(position) ==
  IF "saveLocation" \in ApiMethods
  THEN [requests |-> <<LocationData(position)>>, ret |-> "pending"]
  ELSE [requests |-> <<>>, ret |-> "rejected"]

\* savePositionToBackend(position) up to its first suspension: the requests
\* it issues and what its promise settles with.  Calling
\* window.api.saveLocation when the api object has no such member throws a
\* TypeError inside the try block, and the catch block returns false.
SavePositionToBackend(position) ==
  IF "saveLocation" \in ApiMethods
  THEN [requests |-> <<LocationData(position)>>, ret |-> "pending"]
  ELSE [requests |-> <<>>, ret |-> "false"]

\* a task with output o calls savePositionToBackend(position) and does not
\* wait for it: sets reports, lastReported and out
Report(o, position) ==
  LET r == SavePositionToBackend(position)
  IN  /\ reports' = reports \o r.requests
      /\ lastReported' = position
      /\ req' = req
      /\ out' = [o EXCEPT !.requests = Len(r.requests), !.saved = r.ret]

\* no request() call has been made
NoRequest ==
  [pc |-> "idle", body |-> "none", timeout |-> 0, authorization |-> FALSE,
   contentType |-> FALSE, timer |-> FALSE, fetches |-> 0,
   signalled |-> FALSE, ok |-> FALSE, settled |-> "pending",
   result |-> "none"]

\* localStorage as a task found it: whether st_token is stored and whether
\* location_consent is anything but 'false'
Storage(token, locationConsent) ==
  [seen |-> TRUE, token |-> token, locationConsent |-> locationConsent]

\* the storage of a task that is not one of those
NoStorage == [seen |-> FALSE, token |-> FALSE, locationConsent |-> FALSE]

Init ==
  /\ watchId = Null
  /\ intervalId = Undefined
  /\ lastPosition = Null
  /\ isTracking = FALSE
  /\ userConsent = FALSE
  /\ initialized = FALSE
  /\ permissionState = "unset"
  /\ minDistance = DefaultMinDistance
  /\ autoStart \in BOOLEAN
  /\ hasGeolocation \in BOOLEAN
  /\ hasPermissions \in BOOLEAN
  /\ watches = {}
  /\ intervals = {}
  /\ nextWatchId = 1
  /\ nextIntervalId = 1
  /\ permHooks = 0
  /\ initWaits = [start |-> 0, pageload |-> 0]
  /\ startReqs = 0
  /\ pollReqs = 0
  /\ pageLoaded = FALSE
  /\ reports = <<>>
  /\ req = NoRequest
  /\ lastReported = Null
  /\ storage = NoStorage
  /\ out = Out("init", Null, "", 0, 0, 0, "none", 0)

(***************************************************************************)
(* GPSTracker methods.  Each is the part of a task that runs the method;   *)
(* the task that uses it leaves the other variables unchanged.             *)
(***************************************************************************)
\* handlePosition that assigns lastPosition before it asks the filter
HandlePosition_AssignsFirst(op, position) ==
  /\ lastPosition' = position
  /\ IF ShouldSavePosition(position)
     THEN Report(Out(op, position, "", 1, 1, 0, "none", 0), position)
     ELSE /\ out' = Out(op, position, "", 0, 0, 0, "none", 0)
          /\ UNCHANGED backend

\* handlePosition that calls savePositionToBackend before it asks the
\* filter, so that rejected positions are reported as well
HandlePosition_ReportsAll(op, position) ==
  /\ lastPosition' = IF ShouldSavePosition(position) THEN position
                     ELSE lastPosition
  /\ Report(Out(op, position, "", 1,
                IF ShouldSavePosition(position) THEN 1 ELSE 0, 0, "none", 0),
            position)

\* handlePosition(position): sets lastPosition, reports and out
HandlePosition(op, position) ==
  IF ShouldSavePosition(position)
  THEN /\ lastPosition' = position
       /\ Report(Out(op, position, "", 1, 1, 0, "none", 0), position)
  ELSE /\ lastPosition' = lastPosition
       /\ out' = Out(op, position, "", 0, 0, 0, "none", 0)
       /\ UNCHANGED backend

\* handleError without `this.userConsent = false`
HandleError_KeepsConsent(op, code, ret) ==
  /\ userConsent' = userConsent
  /\ out' = Out(op, Null, code, 0, 0, 1, ret, 0)

\* handleError whose switch clears userConsent in every case
HandleError_AlwaysRevokes(op, code, ret) ==
  /\ userConsent' = FALSE
  /\ out' = Out(op, Null, code, 0, 0, 1, ret, 0)

\* handleError(error): sets userConsent and out; ret is what the
\* startTracking call whose error callback this is resolves with
HandleError(op, code, ret) ==
  /\ userConsent' = IF code = "PERMISSION_DENIED" THEN FALSE ELSE userConsent
  /\ out' = Out(op, Null, code, 0, 0, 1, ret, 0)

\* stopTracking without `this.isTracking = false`
StopTracking_KeepsFlag(op, warnings) ==
  /\ watchId' = Null
  /\ watches' = IF watchId # Null THEN watches \ {watchId} ELSE watches
  /\ intervalId' = IF intervalId > 0 THEN Null ELSE intervalId
  /\ intervals' = IF intervalId > 0 THEN intervals \ {intervalId} ELSE intervals
  /\ isTracking' = isTracking
  /\ out' = Out(op, Null, "", 0, 0, warnings, "none",
                (IF watchId # Null THEN 1 ELSE 0) + (IF intervalId > 0 THEN 1 ELSE 0))

\* stopTracking without the tests of watchId and intervalId: it calls
\* clearWatch and clearInterval and nulls both handles every time
StopTracking_Unguarded(op, warnings) ==
  /\ watchId' = Null
  /\ watches' = watches \ {watchId}
  /\ intervalId' = Null
  /\ intervals' = intervals \ {intervalId}
  /\ isTracking' = FALSE
  /\ out' = Out(op, Null, "", 0, 0, warnings, "none", 2)

\* stopTracking(), followed by `warnings` showWarning calls of the caller:
\* sets watchId, intervalId, isTracking, watches, intervals and out
StopTracking(op, warnings) ==
  /\ watchId' = Null
  /\ watches' = IF watchId # Null THEN watches \ {watchId} ELSE watches
  /\ intervalId' = IF intervalId > 0 THEN Null ELSE intervalId
  /\ intervals' = IF intervalId > 0 THEN intervals \ {intervalId} ELSE intervals
  /\ isTracking' = FALSE
  /\ out' = Out(op, Null, "", 0, 0, warnings, "none",
                (IF watchId # Null THEN 1 ELSE 0) + (IF intervalId > 0 THEN 1 ELSE 0))

\* startTracking without the `if (this.isTracking)` test
GetFirstPosition_NoGuard(op, n, warnings) ==
  /\ startReqs' = startReqs + n
  /\ out' = Out(op, Null, "", 0, 0, warnings, "none", 0)

\* startTracking() from `if (this.isTracking)` on, invoked n times in a row
\* by one task, after `warnings` showWarning calls: sets startReqs and out
GetFirstPosition(op, n, warnings) ==
  IF isTracking
  THEN /\ startReqs' = startReqs
       /\ out' = Out(op, Null, "", 0, 0, warnings, "true", 0)
  ELSE /\ startReqs' = startReqs + n
       /\ out' = Out(op, Null, "", 0, 0, warnings, "none", 0)

\* whether the model lets n more startTracking calls be made
CanStart(n) ==
  (nextWatchId - 1) + startReqs + initWaits.start + initWaits.pageload + n
    <= MaxStarts

\* startTracking(): sets initialized, initWaits, startReqs and out
StartTracking(op) ==
  /\ CanStart(1)
  /\ IF initialized
     THEN /\ GetFirstPosition(op, 1, 0)
          /\ UNCHANGED <<initialized, initWaits>>
     ELSE IF ~hasGeolocation
     THEN \* initialize() warns and returns false, which is not looked at;
          \* navigator.geolocation.getCurrentPosition then throws in the
          \* promise executor
          /\ out' = Out(op, Null, "", 0, 0, 1,
                        IF isTracking THEN "true" ELSE "rejected", 0)
          /\ UNCHANGED <<initialized, initWaits, startReqs>>
     ELSE IF ~hasPermissions
     THEN \* navigator.permissions.query throws; initialize() catches
          /\ initialized' = TRUE
          /\ GetFirstPosition(op, 1, 0)
          /\ UNCHANGED initWaits
     ELSE \* suspended at `await navigator.permissions.query`
          /\ initWaits' = [initWaits EXCEPT !.start = @ + 1]
          /\ out' = Out(op, Null, "", 0, 0, 0, "none", 0)
          /\ UNCHANGED <<initialized, startReqs>>

(***************************************************************************)
(* Tasks.                                                                  *)
(***************************************************************************)
\* a caller of the public startTracking()
StartTrackingCall ==
  /\ StartTracking("startTracking")
  /\ UNCHANGED <<watchId, intervalId, lastPosition, isTracking, userConsent,
                 permissionState, options, hasGeolocation, hasPermissions,
                 watches, intervals, nextWatchId, nextIntervalId, permHooks,
                 pollReqs, app, backend>>
  /\ storage' = NoStorage

\* a caller of the public stopTracking()
StopTrackingCall ==
  /\ StopTracking("stopTracking", 0)
  /\ UNCHANGED <<lastPosition, userConsent, initialized, permissionState,
                 options, hasGeolocation, hasPermissions, nextWatchId,
                 nextIntervalId, permHooks, initWaits, startReqs, pollReqs,
                 app, backend>>
  /\ storage' = NoStorage

\* initialize() resumes after `await navigator.permissions.query`, and the
\* code that awaited initialize() runs on: startTracking() from its
\* isTracking test, or the DOMContentLoaded handler's then-callback, which
\* reads st_token from localStorage (token: whether there is one) and
\* does not read location_consent (locationConsent: whether it is anything
\* but 'false')
InitializeResume(kind, state, token, locationConsent) ==
  /\ initWaits[kind] > 0
  /\ storage' = IF kind = "pageload" THEN Storage(token, locationConsent)
                ELSE NoStorage
  /\ permHooks > 0 => state = permissionState
  /\ initWaits' = [initWaits EXCEPT ![kind] = @ - 1]
  /\ permissionState' = state
  /\ permHooks' = permHooks + 1
  /\ initialized' = TRUE
  /\ IF kind = "start"
     THEN GetFirstPosition("InitializeResume", 1, 0)
     ELSE IF token
     THEN GetFirstPosition("InitializeResume", 1, 0)
     ELSE /\ out' = Out("InitializeResume", Null, "", 0, 0, 0, "none", 0)
          /\ UNCHANGED startReqs
  /\ UNCHANGED <<watchId, intervalId, lastPosition, isTracking, userConsent,
                 options, hasGeolocation, hasPermissions, watches, intervals,
                 nextWatchId, nextIntervalId, pollReqs, app, backend>>

\* success callback that hands the first fix to handlePosition, so that the
\* filter decides on it
StartSuccess_Filtered(position) ==
  /\ startReqs > 0
  /\ startReqs' = startReqs - 1
  /\ userConsent' = TRUE
  /\ lastPosition' = IF ShouldSavePosition(position) THEN position ELSE lastPosition
  /\ watchId' = nextWatchId
  /\ watches' = watches \cup {nextWatchId}
  /\ nextWatchId' = nextWatchId + 1
  /\ isTracking' = TRUE
  /\ intervalId' = nextIntervalId
  /\ intervals' = intervals \cup {nextIntervalId}
  /\ nextIntervalId' = nextIntervalId + 1
  /\ IF ShouldSavePosition(position)
     THEN Report([Out("StartSuccess", position, "", 1, 0, 0, "true", 0)
                    EXCEPT !.replaced = lastPosition], position)
     ELSE /\ out' = [Out("StartSuccess", position, "", 0, 0, 0, "true", 0)
                       EXCEPT !.replaced = lastPosition]
          /\ UNCHANGED backend
  /\ UNCHANGED <<initialized, permissionState, options, hasGeolocation,
                 hasPermissions, permHooks, initWaits, pollReqs, app>>
  /\ storage' = NoStorage

\* success callback of startTracking's getCurrentPosition
StartSuccess(position) ==
  /\ startReqs > 0
  /\ startReqs' = startReqs - 1
  /\ userConsent' = TRUE
  /\ lastPosition' = position
  /\ watchId' = nextWatchId
  /\ watches' = watches \cup {nextWatchId}
  /\ nextWatchId' = nextWatchId + 1
  /\ isTracking' = TRUE
  /\ intervalId' = nextIntervalId
  /\ intervals' = intervals \cup {nextIntervalId}
  /\ nextIntervalId' = nextIntervalId + 1
  /\ Report([Out("StartSuccess", position, "", 1, 0, 0, "true", 0)
               EXCEPT !.replaced = lastPosition], position)
  /\ UNCHANGED <<initialized, permissionState, options, hasGeolocation,
                 hasPermissions, permHooks, initWaits, pollReqs, app>>
  /\ storage' = NoStorage

\* error callback of a startTracking that has set isTracking before it
\* asked for the first fix
StartError_MarkedTracking(code) ==
  /\ startReqs > 0
  /\ startReqs' = startReqs - 1
  /\ isTracking' = TRUE
  /\ HandleError("StartError", code, "false")
  /\ UNCHANGED <<watchId, intervalId, lastPosition, initialized,
                 permissionState, options, hasGeolocation, hasPermissions,
                 watches, intervals, nextWatchId, nextIntervalId, permHooks,
                 initWaits, pollReqs, app, backend>>
  /\ storage' = NoStorage

\* error callback of startTracking's getCurrentPosition
StartError(code) ==
  /\ startReqs > 0
  /\ startReqs' = startReqs - 1
  /\ HandleError("StartError", code, "false")
  /\ UNCHANGED <<watchId, intervalId, lastPosition, isTracking, initialized,
                 permissionState, options, hasGeolocation, hasPermissions,
                 watches, intervals, nextWatchId, nextIntervalId, permHooks,
                 initWaits, pollReqs, app, backend>>
  /\ storage' = NoStorage

\* a live watch delivers a position to handlePosition
WatchSample(position) ==
  /\ watches # {}
  /\ HandlePosition("handlePosition", position)
  /\ UNCHANGED <<watchId, intervalId, isTracking, userConsent, initialized,
                 permissionState, options, platform, app>>
  /\ storage' = NoStorage

\* a live watch delivers an error to handleError
WatchError(code) ==
  /\ watches # {}
  /\ HandleError("handleError", code, "none")
  /\ UNCHANGED <<watchId, intervalId, lastPosition, isTracking, initialized,
                 permissionState, options, platform, app, backend>>
  /\ storage' = NoStorage

\* the setInterval callback of a live interval
IntervalTick ==
  /\ intervals # {}
  /\ pollReqs < MaxPolls
  /\ pollReqs' = IF lastPosition # Null THEN pollReqs + 1 ELSE pollReqs
  /\ out' = Out("IntervalTick", Null, "", 0, 0, 0, "none", 0)
  /\ UNCHANGED <<tracker, options, hasGeolocation, hasPermissions, watches,
                 intervals, nextWatchId, nextIntervalId, permHooks, initWaits,
                 startReqs, app, backend>>
  /\ storage' = NoStorage

\* a poll's getCurrentPosition succeeds
PollSuccess(position) ==
  /\ pollReqs > 0
  /\ pollReqs' = pollReqs - 1
  /\ HandlePosition("handlePosition", position)
  /\ UNCHANGED <<watchId, intervalId, isTracking, userConsent, initialized,
                 permissionState, options, hasGeolocation, hasPermissions,
                 watches, intervals, nextWatchId, nextIntervalId, permHooks,
                 initWaits, startReqs, app>>
  /\ storage' = NoStorage

\* a poll's getCurrentPosition fails
PollError(code) ==
  /\ pollReqs > 0
  /\ pollReqs' = pollReqs - 1
  /\ HandleError("handleError", code, "none")
  /\ UNCHANGED <<watchId, intervalId, lastPosition, isTracking, initialized,
                 permissionState, options, hasGeolocation, hasPermissions,
                 watches, intervals, nextWatchId, nextIntervalId, permHooks,
                 initWaits, startReqs, app, backend>>
  /\ storage' = NoStorage

\* permission.onchange whose `denied` branch shows the warning and does not
\* call stopTracking
PermissionChange_WarnsOnly(state) ==
  /\ permHooks > 0
  /\ state # permissionState
  /\ permissionState' = state
  /\ IF state = "granted" /\ autoStart
     THEN /\ CanStart(permHooks)
          /\ GetFirstPosition("PermissionChange", permHooks, 0)
     ELSE /\ out' = Out("PermissionChange", Null, "", 0, 0,
                        IF state = "denied" THEN permHooks ELSE 0, "none", 0)
          /\ UNCHANGED startReqs
  /\ UNCHANGED <<watchId, intervalId, isTracking, watches, intervals,
                 lastPosition, userConsent, initialized, options,
                 hasGeolocation, hasPermissions, nextWatchId, nextIntervalId,
                 permHooks, initWaits, pollReqs, app, backend>>
  /\ storage' = NoStorage

\* permission.onchange that starts tracking on `granted` whatever
\* options.autoStart says
PermissionChange_IgnoresAutoStart(state) ==
  /\ permHooks > 0
  /\ state # permissionState
  /\ permissionState' = state
  /\ IF state = "granted"
     THEN /\ CanStart(permHooks)
          /\ GetFirstPosition("PermissionChange", permHooks, 0)
          /\ UNCHANGED <<watchId, intervalId, isTracking, watches, intervals>>
     ELSE IF state = "denied"
     THEN /\ StopTracking("PermissionChange", permHooks)
          /\ UNCHANGED startReqs
     ELSE /\ out' = Out("PermissionChange", Null, "", 0, 0, 0, "none", 0)
          /\ UNCHANGED <<watchId, intervalId, isTracking, watches, intervals,
                         startReqs>>
  /\ UNCHANGED <<lastPosition, userConsent, initialized, options,
                 hasGeolocation, hasPermissions, nextWatchId, nextIntervalId,
                 permHooks, initWaits, pollReqs, app, backend>>
  /\ storage' = NoStorage

\* the platform's permission changes: permission.onchange of every
\* PermissionStatus that initialize() has hooked runs
PermissionChange(state) ==
  /\ permHooks > 0
  /\ state # permissionState
  /\ permissionState' = state
  /\ IF state = "granted" /\ autoStart
     THEN /\ CanStart(permHooks)
          /\ GetFirstPosition("PermissionChange", permHooks, 0)
          /\ UNCHANGED <<watchId, intervalId, isTracking, watches, intervals>>
     ELSE IF state = "denied"
     THEN /\ StopTracking("PermissionChange", permHooks)
          /\ UNCHANGED startReqs
     ELSE /\ out' = Out("PermissionChange", Null, "", 0, 0, 0, "none", 0)
          /\ UNCHANGED <<watchId, intervalId, isTracking, watches, intervals,
                         startReqs>>
  /\ UNCHANGED <<lastPosition, userConsent, initialized, options,
                 hasGeolocation, hasPermissions, nextWatchId, nextIntervalId,
                 permHooks, initWaits, pollReqs, app, backend>>
  /\ storage' = NoStorage

\* the DOMContentLoaded handler of gps-tracker.js; token: whether
\* localStorage holds st_token, which the handler reads; locationConsent:
\* whether location_consent is anything but 'false', which it does not read
PageLoad(token, locationConsent) ==
  /\ ~pageLoaded
  /\ storage' = Storage(token, locationConsent)
  /\ pageLoaded' = TRUE
  /\ IF ~hasGeolocation
     THEN /\ out' = Out("PageLoad", Null, "", 0, 0, 1, "none", 0)
          /\ UNCHANGED <<initialized, initWaits, startReqs>>
     ELSE IF ~hasPermissions
     THEN /\ initialized' = TRUE
          /\ IF token
             THEN /\ CanStart(1)
                  /\ GetFirstPosition("PageLoad", 1, 0)
             ELSE /\ out' = Out("PageLoad", Null, "", 0, 0, 0, "none", 0)
                  /\ UNCHANGED startReqs
          /\ UNCHANGED initWaits
     ELSE /\ CanStart(1)
          /\ initWaits' = [initWaits EXCEPT !.pageload = @ + 1]
          /\ out' = Out("PageLoad", Null, "", 0, 0, 0, "none", 0)
          /\ UNCHANGED <<initialized, startReqs>>
  /\ UNCHANGED <<watchId, intervalId, lastPosition, isTracking, userConsent,
                 permissionState, options, hasGeolocation, hasPermissions,
                 watches, intervals, nextWatchId, nextIntervalId, permHooks,
                 pollReqs, backend>>

\* the timer set by handleLogin after a successful login fires;
\* locationConsent: whether localStorage's location_consent is not 'false';
\* token: whether st_token, stored by the login, is still there (handleLogout
\* removes it and leaves the timer running), which the callback does not read
LoginTimer(token, locationConsent) ==
  /\ storage' = Storage(token, locationConsent)
  /\ IF locationConsent /\ hasGeolocation
     THEN StartTracking("LoginTimer")
     ELSE /\ out' = Out("LoginTimer", Null, "", 0, 0, 0, "none", 0)
          /\ UNCHANGED <<initialized, initWaits, startReqs>>
  /\ UNCHANGED <<watchId, intervalId, lastPosition, isTracking, userConsent,
                 permissionState, options, hasGeolocation, hasPermissions,
                 watches, intervals, nextWatchId, nextIntervalId, permHooks,
                 pollReqs, app, backend>>

\* a caller of the public getCurrentPosition(), up to the settling of the
\* promise it returns: resolved with the platform's position, or rejected
\* with the platform's error or, without navigator.geolocation, with the
\* TypeError thrown in the promise executor
GetCurrentPosition(resolved) ==
  /\ resolved => hasGeolocation
  /\ out' = Out("getCurrentPosition", Null, "", 0, 0, 0,
                IF resolved THEN "resolved" ELSE "rejected", 0)
  /\ UNCHANGED <<tracker, options, platform, app, backend>>
  /\ storage' = NoStorage

Next ==
  \/ StartTrackingCall
  \/ StopTrackingCall
  \/ \E kind \in {"start", "pageload"}, state \in PermissionStates,
          token \in BOOLEAN, locationConsent \in BOOLEAN :
       InitializeResume(kind, state, token, locationConsent)
  \/ \E position \in Samples : StartSuccess(position)
  \/ \E code \in ErrorCodes : StartError(code)
  \/ \E position \in Samples : WatchSample(position)
  \/ \E code \in ErrorCodes : WatchError(code)
  \/ IntervalTick
  \/ \E position \in Samples : PollSuccess(position)
  \/ \E code \in ErrorCodes : PollError(code)
  \/ \E state \in PermissionStates : PermissionChange(state)
  \/ \E token \in BOOLEAN, locationConsent \in BOOLEAN :
       PageLoad(token, locationConsent)
  \/ \E token \in BOOLEAN, locationConsent \in BOOLEAN :
       LoginTimer(token, locationConsent)
  \/ \E resolved \in BOOLEAN : GetCurrentPosition(resolved)

Spec == Init /\ [][Next]_vars

(***************************************************************************)
(* The position filter on its own: shouldSavePosition applied to every     *)
(* position, for a tracker constructed with any of the thresholds and      *)
(* holding any lastPosition (none, before the first fix).                  *)
(***************************************************************************)
InitFilter ==
  /\ lastPosition \in {Null} \cup AllSamples
  /\ minDistance \in MinDistances
  /\ watchId = Null
  /\ intervalId = IF lastPosition = Null THEN Undefined ELSE Null
  /\ isTracking = FALSE
  /\ userConsent = (lastPosition # Null)
  /\ initialized = (lastPosition # Null)
  /\ permissionState = "unset"
  /\ autoStart = FALSE
  /\ hasGeolocation = TRUE
  /\ hasPermissions = FALSE
  /\ watches = {}
  /\ intervals = {}
  /\ nextWatchId = IF lastPosition = Null THEN 1 ELSE 2
  /\ nextIntervalId = IF lastPosition = Null THEN 1 ELSE 2
  /\ permHooks = 0
  /\ initWaits = [start |-> 0, pageload |-> 0]
  /\ startReqs = 0
  /\ pollReqs = 0
  /\ pageLoaded = FALSE
  /\ reports = <<>>
  /\ req = NoRequest
  /\ lastReported = lastPosition
  /\ storage = NoStorage
  /\ out = Out("init", Null, "", 0, 0, 0, "none", 0)

\* a caller of shouldSavePosition(newPosition); ret is the value returned
ShouldSavePositionCall(newPosition) ==
  /\ out' = Out("shouldSavePosition", newPosition, "", 0, 0, 0,
                IF ShouldSavePosition(newPosition) THEN "true" ELSE "false", 0)
  /\ UNCHANGED <<tracker, options, platform, app, backend, storage>>

NextFilter == \E newPosition \in AllSamples : ShouldSavePositionCall(newPosition)

SpecFilter == InitFilter /\ [][NextFilter]_vars

(***************************************************************************)
(* The HTTP client of api.js: one request() call, from the call to the     *)
(* settling of the promise it returns.  req.timer tells whether the        *)
(* timeout timer is pending, req.signalled whether controller.abort() has  *)
(* run, req.fetches counts the fetch calls; req.settled and req.result     *)
(* tell how the promise settled: "json" is the parsed body, "okTrue" is    *)
(* {ok: true}, "errorText" is {error: text}, "errorStatus" is {error:      *)
(* 'Request failed with status ...'}, "timedOut" is {error: 'Request timed *)
(* out'}, "networkError" is {error: 'Network error: ...'} and "thrown" is  *)
(* the exception of a rejected promise.                                    *)
(***************************************************************************)
\* the timeout of a call whose opts give none, milliseconds
DefaultTimeout == 15000

\* what a caller passes as body: nothing, a value JSON.stringify can
\* serialise, a FormData, a value JSON.stringify throws on
Bodies == {"none", "json", "formData", "unserializable"}

\* opts.timeout: absent, or a number of milliseconds
Timeouts == {0, 5000}

\* localStorage: holds a token, holds none, or cannot be accessed
StorageStates == {"token", "empty", "throws"}

\* what res.text() can give: a JSON object, the JSON null, a JSON value that
\* is falsy (0, false, ""), text that is no JSON, nothing
Texts == {"object", "null", "falsy", "text", "empty"}

\* request(method, path, body, opts) up to `await fetch(url, fetchOpts)`
RequestCall(body, optsTimeout, optsToken, stored) ==
  /\ req.pc = "idle"
  /\ LET timeout == IF optsTimeout # 0 THEN optsTimeout ELSE DefaultTimeout
         called == [NoRequest EXCEPT !.body = body, !.timeout = timeout]
     IN  IF ~optsToken /\ stored = "throws"
         THEN \* localStorage.getItem throws before the try block
              req' = [called EXCEPT !.pc = "done", !.settled = "rejected",
                                    !.result = "thrown"]
         ELSE LET prepared ==
                    [called EXCEPT
                       !.contentType = (body \in {"json", "unserializable"}),
                       !.authorization = (optsToken \/ stored = "token"),
                       !.timer = TRUE]
              IN  IF body = "unserializable"
                  THEN \* JSON.stringify throws before the try block
                       req' = [prepared EXCEPT !.pc = "done",
                                               !.settled = "rejected",
                                               !.result = "thrown"]
                  ELSE req' = [prepared EXCEPT !.pc = "fetching",
                                               !.fetches = 1]
  /\ UNCHANGED <<tracker, options, platform, app, reports, lastReported,
                 storage, out>>

\* the fetch promise resolves with a response; request() clears the timer
\* and awaits res.text()
FetchResolves(ok) ==
  /\ req.pc = "fetching"
  /\ ~req.signalled
  /\ req' = [req EXCEPT !.pc = "reading", !.timer = FALSE, !.ok = ok]
  /\ UNCHANGED <<tracker, options, platform, app, reports, lastReported,
                 storage, out>>

\* the fetch promise rejects because the network failed; the catch block
FetchRejects ==
  /\ req.pc = "fetching"
  /\ ~req.signalled
  /\ req' = [req EXCEPT !.pc = "done", !.timer = FALSE,
                        !.settled = "resolved", !.result = "networkError"]
  /\ UNCHANGED <<tracker, options, platform, app, reports, lastReported,
                 storage, out>>

\* the timeout timer fires: controller.abort()
TimerFires ==
  /\ req.timer
  /\ req' = [req EXCEPT !.timer = FALSE, !.signalled = TRUE]
  /\ UNCHANGED <<tracker, options, platform, app, reports, lastReported,
                 storage, out>>

\* the aborted fetch rejects with an AbortError; the catch block
AbortRejects ==
  /\ req.pc = "fetching"
  /\ req.signalled
  /\ req' = [req EXCEPT !.pc = "done", !.timer = FALSE,
                        !.settled = "resolved", !.result = "timedOut"]
  /\ UNCHANGED <<tracker, options, platform, app, reports, lastReported,
                 storage, out>>

\* res.text() resolves; safeParse and the two return statements
TextResolves(text) ==
  /\ req.pc = "reading"
  /\ LET json == IF text \in {"object", "falsy"} THEN text ELSE "null"
         result ==
           IF req.ok
           THEN IF json # "null" THEN "json" ELSE "okTrue"
           ELSE IF json = "object" THEN "json"
                ELSE IF text # "empty" THEN "errorText" ELSE "errorStatus"
     IN  req' = [req EXCEPT !.pc = "done", !.settled = "resolved",
                            !.result = result]
  /\ UNCHANGED <<tracker, options, platform, app, reports, lastReported,
                 storage, out>>

\* res.text() rejects; the catch block
TextRejects ==
  /\ req.pc = "reading"
  /\ req' = [req EXCEPT !.pc = "done", !.timer = FALSE,
                        !.settled = "resolved", !.result = "networkError"]
  /\ UNCHANGED <<tracker, options, platform, app, reports, lastReported,
                 storage, out>>

InitRequest == Init /\ ~autoStart /\ hasGeolocation /\ hasPermissions

NextRequest ==
  \/ \E body \in Bodies, optsTimeout \in Timeouts, optsToken \in BOOLEAN,
        stored \in StorageStates :
       RequestCall(body, optsTimeout, optsToken, stored)
  \/ \E ok \in BOOLEAN : FetchResolves(ok)
  \/ FetchRejects
  \/ TimerFires
  \/ AbortRejects
  \/ \E text \in Texts : TextResolves(text)
  \/ TextRejects

SpecRequest == InitRequest /\ [][NextRequest]_vars

(***************************************************************************)
(* Properties.                                                             *)
(***************************************************************************)
\* the tasks that are a watch or poll callback: handlePosition or
\* handleError run by the platform, not by startTracking's first request
IsCallback(o) == o.op \in {"handlePosition", "handleError"}

\* C1: a watch or poll callback that fires while the tracker is stopped
\* (it was scheduled before the stopTracking) hands out no report, no
\* position update and no warning, and leaves lastPosition and userConsent
\* as they are.
C1_StaleCallbackIgnored ==
  [][(~isTracking /\ IsCallback(out'))
       => /\ out'.reported = 0
          /\ out'.updates = 0
          /\ out'.warnings = 0
          /\ lastPosition' = lastPosition
          /\ userConsent' = userConsent]_vars

\* C2: as long as no subscription has been cancelled (no stopTracking has
\* had anything to stop), watchPosition has been invoked at most once,
\* however many startTracking calls were made.
C2_OneSubscription ==
  (watches = 1..(nextWatchId - 1)) => nextWatchId <= 2

\* C3: watchId is non-null exactly when isTracking is true.
C3_HandleIffTracking == (watchId # Null) <=> isTracking

C3_Witness ==
  /\ isTracking
  /\ watchId = 2
  /\ ~userConsent
  /\ permissionState = "granted"

\* C4: when startTracking's first position request fails, status, both
\* handles, the platform's watches and intervals and lastPosition stay as
\* they are, one warning is shown and the call resolves false; and the
\* tracker goes from Idle to Tracking only in the success callback of a
\* first position request.
C4_StartFailureStaysIdle ==
  [][/\ out'.op = "StartError"
          => /\ UNCHANGED <<isTracking, watchId, intervalId, lastPosition,
                            watches, intervals>>
             /\ out'.warnings = 1
             /\ out'.ret = "false"
     /\ (~isTracking /\ isTracking') => out'.op = "StartSuccess"]_vars

C4_Witness ==
  /\ out.op = "StartError"
  /\ out.ret = "false"
  /\ ~isTracking
  /\ watches = {}
  /\ lastPosition = Null

\* C5: a PERMISSION_DENIED error handed to handleError while Tracking
\* sets userConsent to false and shows exactly one warning.
C5_DeniedClearsConsent ==
  [][(isTracking /\ out'.op \in {"handleError", "StartError"}
        /\ out'.code = "PERMISSION_DENIED")
       => (~userConsent' /\ out'.warnings = 1)]_vars

C5_Witness ==
  /\ out.op = "handleError"
  /\ out.code = "PERMISSION_DENIED"
  /\ isTracking
  /\ ~userConsent
  /\ out.warnings = 1

\* C6: stopTracking called while Idle changes no field of the tracker and
\* cancels nothing on the platform; a stopTracking right after a
\* stopTracking changes nothing either.
C6_StopIdempotent ==
  [][/\ (out'.op = "stopTracking" /\ ~isTracking)
          => /\ UNCHANGED <<tracker, watches, intervals>>
             /\ out'.cleared = 0
     /\ (out'.op = "stopTracking" /\ out.op = "stopTracking")
          => /\ UNCHANGED <<tracker, watches, intervals>>
             /\ out'.cleared = 0]_vars

C6_Witness ==
  /\ out.op = "stopTracking"
  /\ out.cleared = 0
  /\ ~isTracking
  /\ lastPosition # Null
  /\ intervalId = Null

\* C7: startTracking called while Tracking returns true and does nothing:
\* no position request, no subscription, no timer, no report, no warning,
\* no field changed.
C7_StartWhileTrackingNoOp ==
  [][(isTracking /\ out'.op = "startTracking")
       => /\ out'.ret = "true"
          /\ UNCHANGED <<tracker, platform>>
          /\ out'.reported = 0
          /\ out'.warnings = 0]_vars

C7_Witness ==
  /\ out.op = "startTracking"
  /\ out.ret = "true"
  /\ isTracking

\* C8: when startTracking's first position request succeeds, the position
\* becomes lastPosition and is handed to savePositionToBackend exactly
\* once, whatever the filter would say of it.
C8_FirstFixUnconditional ==
  [][out'.op = "StartSuccess"
       => /\ lastPosition' = out'.sample
          /\ out'.reported = 1
          /\ out'.replaced = lastPosition]_vars

\* a first fix at the place of the lastPosition of an earlier session
C8_Witness ==
  /\ out.op = "StartSuccess"
  /\ out.replaced = 1
  /\ out.sample = 2
  /\ lastPosition = 2
  /\ out.reported = 1

\* whether two positions have the same latitude and longitude
SameCoords(p, q) ==
  /\ Position[p].latitude = Position[q].latitude
  /\ Position[p].longitude = Position[q].longitude

C10_HandlePositionEffect ==
  [][out'.op = "handlePosition"
       => /\ UNCHANGED <<watchId, intervalId, isTracking, userConsent,
                         initialized, permissionState>>
          /\ out'.warnings = 0
          /\ IF ShouldSavePosition(out'.sample)
             THEN /\ lastPosition' = out'.sample
                  /\ out'.reported = 1
                  /\ out'.updates = 1
             ELSE /\ lastPosition' = lastPosition
                  /\ out'.reported = 0
                  /\ out'.updates = 0]_vars

\* a fix at the place of lastPosition is dropped
C10_Witness ==
  /\ out.op = "handlePosition"
  /\ out.sample = 2
  /\ lastPosition = 1
  /\ out.reported = 0
  /\ out.updates = 0
  /\ isTracking

\* C11: every sample handed to savePositionToBackend leads to exactly one
\* HTTP request, carrying the sample's eight fields, issued through the
\* window.api client that api.js defines.
C11_ReportIssuesRequest ==
  out.reported = 1
    => /\ out.requests = 1
       /\ reports # <<>>
       /\ reports[Len(reports)] = LocationData(out.sample)

\* C12: a savePositionToBackend call that fails settles with false and
\* raises nothing, puts no request for the sample in flight, is made once
\* per delivered sample and only by the task the sample was delivered to,
\* and the tracker's fields after that task are the ones the task assigns
\* whatever the report's outcome.
C12_FailedReportReturnsFalse ==
  [][/\ out'.reported > 0
          => /\ out'.reported = 1
             /\ out'.op \in {"handlePosition", "StartSuccess"}
             /\ out'.saved \in {"false", "pending"}
     /\ (out'.reported = 1 /\ out'.saved # "pending")
          => /\ out'.saved = "false"
             /\ reports' = reports
             /\ lastPosition' = out'.sample
             /\ initialized' = initialized
             /\ permissionState' = permissionState
             /\ IF out'.op = "handlePosition"
                THEN UNCHANGED <<watchId, intervalId, isTracking, userConsent>>
                ELSE /\ isTracking'
                     /\ userConsent'
                     /\ watchId' \in watches'
                     /\ intervalId' \in intervals']_vars

\* an accepted sample whose report has failed
C12_Witness ==
  /\ out.op = "handlePosition"
  /\ out.reported = 1
  /\ out.saved = "false"
  /\ out.requests = 0
  /\ lastPosition = out.sample
  /\ isTracking

\* C13: the controller does not wait for a report, so the report of an
\* accepted sample is still in flight when the next sample is handled: two
\* samples handed to savePositionToBackend by consecutive tasks leave
\* several reports outstanding at once.
C13_ReportsOverlap ==
  [][(out.reported = 1 /\ out'.reported = 1)
       => (Len(reports') >= 2 /\ Len(reports') = Len(reports) + 1)]_vars

\* C14: when the permission changes to "denied" while the tracker is
\* tracking, the onchange hook that initialize() registered cancels the
\* tracker's watch and interval, clears both handles, leaves the tracker
\* idle and shows a warning.
C14_DeniedStopsTracking ==
  [][(isTracking /\ out'.op = "PermissionChange" /\ permissionState' = "denied")
       => /\ ~isTracking'
          /\ watchId' = Null
          /\ intervalId' = Null
          /\ watchId \in watches /\ watchId \notin watches'
          /\ intervalId \in intervals /\ intervalId \notin intervals'
          /\ out'.cleared = 2
          /\ out'.warnings >= 1]_vars

\* the permission was revoked while tracking
C14_Witness ==
  /\ out.op = "PermissionChange"
  /\ permissionState = "denied"
  /\ out.cleared = 2
  /\ out.warnings = 1
  /\ ~isTracking
  /\ watchId = Null
  /\ intervalId = Null
  /\ lastPosition # Null

\* C15: when the permission changes to "granted", a tracker with autoStart
\* calls startTracking, which asks for the first fix unless the tracker is
\* tracking already, and the tracker is tracking once that request has
\* succeeded; a tracker without autoStart keeps its status, its handles
\* and lastPosition and asks for nothing.
C15_GrantedAutoStart ==
  [][/\ (out'.op = "PermissionChange" /\ permissionState' = "granted")
          => /\ UNCHANGED <<isTracking, watchId, intervalId, lastPosition,
                            watches, intervals, userConsent>>
             /\ out'.warnings = 0
             /\ IF autoStart
                THEN IF isTracking
                     THEN startReqs' = startReqs /\ out'.ret = "true"
                     ELSE startReqs' = startReqs + permHooks /\ startReqs' > startReqs
                ELSE startReqs' = startReqs /\ out'.ret = "none"
     /\ (out'.op = "StartSuccess" /\ startReqs' < startReqs)
          => (isTracking' /\ watchId' \in watches' /\ intervalId' \in intervals')]_vars

\* the permission was granted to an idle tracker with autoStart, which has
\* asked for the first fix
C15_Witness ==
  /\ out.op = "PermissionChange"
  /\ permissionState = "granted"
  /\ autoStart
  /\ ~isTracking
  /\ startReqs > 0
  /\ out.ret = "none"

\* the permission was granted to a tracker without autoStart
C15_WitnessNoAutoStart ==
  /\ out.op = "PermissionChange"
  /\ permissionState = "granted"
  /\ ~autoStart
  /\ startReqs = 0
  /\ ~isTracking

\* the distance calculateDistance gives from position p to position q
Distance(p, q) ==
  CalculateDistance(Position[p].latitude, Position[p].longitude,
                    Position[q].latitude, Position[q].longitude)

\* C16: calculateDistance gives the same distance in both directions and 0
\* for a point and itself, so the filter's answer for a candidate against
\* lastPosition is the answer it would give with the two exchanged.
C16_DistanceSymmetric ==
  (out.op = "shouldSavePosition" /\ lastPosition # Null)
    => LET last == lastPosition
           new == out.sample
       IN  /\ Distance(last, new) = Distance(new, last)
           /\ Distance(last, last) = 0
           /\ Distance(new, new) = 0
           /\ (out.ret = "true") <=> (Distance(new, last) >= minDistance)

\* the filter has decided on two points of different latitude and longitude
C16_Witness ==
  /\ out.op = "shouldSavePosition"
  /\ lastPosition = 3
  /\ out.sample = 6
  /\ out.ret = "true"
  /\ Distance(3, 6) > 0

\* C17: handleError changes neither isTracking nor the watch and interval
\* handles nor lastPosition, whatever the error: the watch and the interval
\* stay live; PERMISSION_DENIED clears userConsent and every other error
\* leaves all the tracker's fields as they were.
C17_HandleErrorFrame ==
  [][out'.op \in {"handleError", "StartError"}
       => /\ UNCHANGED <<isTracking, watchId, intervalId, lastPosition,
                         initialized, permissionState, watches, intervals>>
          /\ out'.cleared = 0
          /\ out'.reported = 0
          /\ IF out'.code = "PERMISSION_DENIED"
             THEN ~userConsent'
             ELSE userConsent' = userConsent]_vars

\* a timeout reported by the watch of a tracking, consented tracker
C17_Witness ==
  /\ out.op = "handleError"
  /\ out.code = "TIMEOUT"
  /\ isTracking
  /\ userConsent
  /\ watchId \in watches
  /\ intervalId \in intervals

\* C18: lastPosition changes only to a position that shouldSavePosition
\* accepts against the lastPosition before the write.
C18_WriteOnlyWhenAccepted ==
  [][lastPosition' # lastPosition
       => (lastPosition' = out'.sample /\ ShouldSavePosition(out'.sample))]_vars

\* C18 as amended: lastPosition changes only in handlePosition, to a
\* position that shouldSavePosition accepts against the lastPosition before
\* the write, and in the success callback of startTracking, to the first
\* fix whatever the filter would say; stopTracking, handleError,
\* getCurrentPosition and the other tasks never write it.
C18_WriteByFilterOrFirstFix ==
  [][/\ lastPosition' # lastPosition
          => /\ lastPosition' = out'.sample
             /\ \/ out'.op = "StartSuccess"
                \/ out'.op = "handlePosition" /\ ShouldSavePosition(out'.sample)
     /\ out'.op \in {"stopTracking", "handleError", "StartError",
                     "getCurrentPosition", "startTracking", "PermissionChange",
                     "IntervalTick"}
          => lastPosition' = lastPosition
     /\ (out'.op = "handlePosition" /\ ~ShouldSavePosition(out'.sample))
          => lastPosition' = lastPosition]_vars

\* handlePosition has replaced lastPosition by a fix the filter accepted
C18_Witness ==
  /\ out.op = "handlePosition"
  /\ out.sample = 3
  /\ lastPosition = 3
  /\ out.reported = 1
  /\ out.updates = 1

\* the tracker is tracking with a live watch and a live interval although
\* userConsent is false
TrackingUnconsented ==
  /\ isTracking
  /\ watchId \in watches
  /\ intervalId \in intervals
  /\ ~userConsent

\* C19: a tracker that is tracking, with its watch and its interval live,
\* and whose userConsent a PERMISSION_DENIED error has cleared, stays so
\* until stopTracking is called or the permission changes.
C19_UnconsentedTrackingPersists ==
  [][(TrackingUnconsented /\ ~TrackingUnconsented')
       => out'.op \in {"stopTracking", "PermissionChange"}]_vars

\* C20: without navigator.geolocation, initialize() shows the warning and
\* starts nothing, and every startTracking call shows the warning, leaves
\* the tracker idle, asks for no position and returns false: its promise is
\* never rejected.
C20_NoGeolocationFailsCleanly ==
  ~hasGeolocation
    => /\ ~isTracking
       /\ ~initialized
       /\ startReqs = 0
       /\ watches = {}
       /\ out.op = "PageLoad" => out.warnings = 1
       /\ out.op = "startTracking" => (out.warnings = 1 /\ out.ret = "false")

\* C21: when stopTracking has run, directly or by a permission change to
\* "denied", while the first position request of a startTracking call was
\* pending, the success of that request does not make the tracker track
\* and opens no watch and no interval.
C21_StopCancelsPendingStart ==
  [][(/\ \/ out.op = "stopTracking"
         \/ out.op = "PermissionChange" /\ permissionState = "denied"
      /\ startReqs > 0
      /\ out'.op = "StartSuccess")
       => /\ ~isTracking'
          /\ watchId' = Null
          /\ intervalId' \notin intervals'
          /\ watches' = watches
          /\ intervals' = intervals]_vars

\* the step is a task in which startTracking was invoked: it has asked for
\* the first fix, returned at once, or is suspended in initialize()
StartTrackingInvoked ==
  \/ startReqs' > startReqs
  \/ initWaits'.start > initWaits.start
  \/ out'.ret \in {"true", "rejected"}

\* C22: the page-load handler and the login timer invoke startTracking only
\* when st_token is stored and location_consent is not 'false'.
C22_AutoStartNeedsTokenAndConsent ==
  [][(storage'.seen /\ StartTrackingInvoked)
       => (storage'.token /\ storage'.locationConsent)]_vars

\* C23: lastPosition is null exactly as long as savePositionToBackend has
\* not been called, and is otherwise the position it was called with last;
\* once set, lastPosition is never null again, whatever stopTracking and
\* handleError do.
C23_LastPositionIsLastReported ==
  /\ [](lastPosition = lastReported)
  /\ [][/\ lastPosition # Null => lastPosition' # Null
        /\ out'.reported = 1 => lastPosition' = out'.sample
        /\ out'.op \in {"stopTracking", "handleError", "StartError",
                        "PermissionChange"}
             => lastPosition' = lastPosition]_vars

\* a stopped tracker still holds the position it reported last
C23_Witness ==
  /\ out.op = "stopTracking"
  /\ ~isTracking
  /\ watchId = Null
  /\ lastPosition = 3
  /\ lastReported = 3

\* C24: every request() call issues exactly one fetch and its promise
\* resolves and is never rejected: with the parsed body or {ok: true} after
\* a successful response, with the parsed body or an {error} object after
\* an unsuccessful one, with {error: 'Request timed out'} when the timer
\* fired first and with {error: 'Network error: ...'} after any other
\* failure; the timer is pending on no path on which the fetch has settled.
C24_RequestAlwaysResolves ==
  /\ req.pc \in {"fetching", "reading"} => (req.fetches = 1 /\ req.settled = "pending")
  /\ req.pc = "reading" => ~req.timer
  /\ req.pc = "done"
       => /\ req.fetches = 1
          /\ ~req.timer
          /\ req.settled = "resolved"
          /\ req.result \in {"json", "okTrue", "errorText", "errorStatus",
                             "timedOut", "networkError"}
          /\ req.result \in {"okTrue"} => req.ok
          /\ req.result \in {"errorText", "errorStatus"} => ~req.ok
          /\ req.result = "timedOut" <=> req.signalled

====
